---------------------------- MODULE Spec2Model ----------------------------
(***************************************************************************)
(* A model of deflect-geoip: the RIR "delegated extended" parser           *)
(* (internal/rir/parse.go) and the build pipeline                          *)
(* (cmd/build-countrydb/main.go).                                          *)
(*                                                                         *)
(* Strings are sequences of one-character strings, so that Split, ToUpper, *)
(* ParseIP, Atoi, Sprintf and the byte-wise string order of Go are         *)
(* computed and not assumed.  A uint32 is a pair <<hi, lo>> of 16-bit      *)
(* halves, with Go's wrap-around arithmetic.                               *)
(***************************************************************************)
EXTENDS Integers, Sequences, FiniteSets, TLC

(***************************************************************************)
(* Characters and strings                                                  *)
(***************************************************************************)

\* The characters the model uses, in increasing byte (ASCII) order.
Ascii ==
    << "#", "+", "-", ".", "/",
       "0", "1", "2", "3", "4", "5", "6", "7", "8", "9", ":",
       "A", "B", "C", "D", "E", "F", "G", "H", "I", "J", "K", "L", "M",
       "N", "O", "P", "Q", "R", "S", "T", "U", "V", "W", "X", "Y", "Z",
       "a", "b", "c", "d", "e", "f", "g", "h", "i", "j", "k", "l", "m",
       "n", "o", "p", "q", "r", "s", "t", "u", "v", "w", "x", "y", "z",
       "|" >>

\* The rank of a character in byte order.
Ord(c) == CHOOSE i \in DOMAIN Ascii : Ascii[i] = c

Digits == <<"0", "1", "2", "3", "4", "5", "6", "7", "8", "9">>

IsDigit(c) == Ord(c) >= Ord("0") /\ Ord(c) <= Ord("9")

DigitVal(c) == Ord(c) - Ord("0")

IsHexDigit(c) ==
    \/ IsDigit(c)
    \/ Ord(c) >= Ord("a") /\ Ord(c) <= Ord("f")
    \/ Ord(c) >= Ord("A") /\ Ord(c) <= Ord("F")

HexVal(c) ==
    IF IsDigit(c) THEN DigitVal(c)
    ELSE IF Ord(c) >= Ord("a") THEN 10 + Ord(c) - Ord("a")
    ELSE 10 + Ord(c) - Ord("A")

\* Go's s < t on strings: byte-wise lexicographic order.
RECURSIVE StrLess(_, _)
StrLess(s, t) ==
    IF t = <<>> THEN FALSE
    ELSE IF s = <<>> THEN TRUE
    ELSE IF Ord(Head(s)) # Ord(Head(t)) THEN Ord(Head(s)) < Ord(Head(t))
    ELSE StrLess(Tail(s), Tail(t))

\* strings.HasPrefix(s, p)
HasPrefix(s, p) == Len(s) >= Len(p) /\ SubSeq(s, 1, Len(p)) = p

\* strings.Split(s, sep) for a one-character separator: n separators give
\* n+1 fields, the empty string gives one empty field.
RECURSIVE Split(_, _)
Split(s, sep) ==
    IF \A i \in DOMAIN s : s[i] # sep THEN <<s>>
    ELSE LET i == CHOOSE k \in DOMAIN s :
                      s[k] = sep /\ \A j \in 1..(k - 1) : s[j] # sep
         IN  <<SubSeq(s, 1, i - 1)>> \o Split(SubSeq(s, i + 1, Len(s)), sep)

\* unicode.ToUpper on one character of the model's alphabet.
UpperChar(c) ==
    IF Ord(c) >= Ord("a") /\ Ord(c) <= Ord("z")
    THEN Ascii[Ord(c) - Ord("a") + Ord("A")]
    ELSE c

\* strings.ToUpper(s)
ToUpper(s) == [i \in DOMAIN s |-> UpperChar(s[i])]

\* fmt's %d of a non-negative integer.
RECURSIVE Itoa(_)
Itoa(n) ==
    IF n < 10 THEN <<Digits[n + 1]>>
    ELSE Itoa(n \div 10) \o <<Digits[(n % 10) + 1]>>

\* The value of a string of decimal digits.
RECURSIVE DecVal(_)
DecVal(s) ==
    IF s = <<>> THEN 0
    ELSE 10 * DecVal(SubSeq(s, 1, Len(s) - 1)) + DigitVal(s[Len(s)])

\* strconv.Atoi(s): an optional sign, then one or more decimal digits.
\* (The model's inputs are short: the out-of-range error is never met.)
Atoi(s) ==
    LET signed == s # <<>> /\ s[1] \in {"+", "-"}
        body   == IF signed THEN Tail(s) ELSE s
    IN  IF body = <<>> \/ \E i \in DOMAIN body : ~IsDigit(body[i])
        THEN [ok |-> FALSE, val |-> 0]
        ELSE [ok |-> TRUE,
              val |-> IF signed /\ s[1] = "-" THEN 0 - DecVal(body)
                      ELSE DecVal(body)]

(***************************************************************************)
(* uint32 arithmetic: a value is <<hi, lo>>, hi and lo in 0..65535         *)
(***************************************************************************)

Half == 2 ^ 16

U32Zero == <<0, 0>>

U32One == <<0, 1>>

U32Max == <<Half - 1, Half - 1>>

\* a + b, wrapping at 2^32.
U32Add(a, b) ==
    LET lo == a[2] + b[2]
    IN  <<(a[1] + b[1] + (lo \div Half)) % Half, lo % Half>>

\* a - b, wrapping at 2^32.
U32Sub(a, b) ==
    LET lo     == a[2] - b[2]
        borrow == IF lo < 0 THEN 1 ELSE 0
    IN  <<(a[1] - b[1] - borrow + Half) % Half, (lo + Half) % Half>>

U32Le(a, b) == a[1] < b[1] \/ (a[1] = b[1] /\ a[2] <= b[2])

U32Lt(a, b) == a[1] < b[1] \/ (a[1] = b[1] /\ a[2] < b[2])

\* uint32(1) << k; Go shifts out every bit for k >= 32.
U32Shl1(k) ==
    IF k < 16 THEN <<0, 2 ^ k>>
    ELSE IF k < 32 THEN <<2 ^ (k - 16), 0>>
    ELSE U32Zero

\* a % block for a block that is a power of two (the only divisors the code
\* forms: uint32(1) << (32 - prefix) with 1 <= prefix <= 32).
U32Mod(a, block) ==
    IF block[1] = 0 THEN <<0, a[2] % block[2]>>
    ELSE <<a[1] % block[1], a[2]>>

\* uint32(count) of a non-negative Go int: the low 32 bits.
U32OfInt(n) == <<(n \div Half) % Half, n % Half>>

(***************************************************************************)
(* net.ParseIP, IP.To4 and the address conversions                         *)
(***************************************************************************)

NoIP == [ok |-> FALSE, groups |-> <<>>]

\* The dotted-decimal parser behind net.ParseIP: four fields of decimal
\* digits, no empty field, no leading zero, each at most 255.
ParseIPv4(s) ==
    LET f == Split(s, ".")
        fieldOK(x) ==
            /\ x # <<>>
            /\ \A i \in DOMAIN x : IsDigit(x[i])
            /\ ~(Len(x) > 1 /\ x[1] = "0")
            /\ DecVal(x) <= 255
    IN  IF Len(f) # 4 \/ \E i \in 1..4 : ~fieldOK(f[i])
        THEN NoIP
        ELSE [ok |-> TRUE,
              groups |-> <<0, 0, 0, 0, 0, Half - 1,
                           DecVal(f[1]) * 256 + DecVal(f[2]),
                           DecVal(f[3]) * 256 + DecVal(f[4])>>]

RECURSIVE HexValOf(_)
HexValOf(s) ==
    IF s = <<>> THEN 0
    ELSE 16 * HexValOf(SubSeq(s, 1, Len(s) - 1)) + HexVal(s[Len(s)])

\* The IPv6 parser behind net.ParseIP: groups of 1 to 4 hex digits
\* separated by ":", at most one "::" standing for one or more zero groups,
\* an optional dotted-decimal IPv4 address as the last two groups.
\* core is the list of the "":""-separated parts, without the empty part a
\* leading or trailing "::" adds.
V6Dotted(core, i) ==
    i = Len(core) /\ \E j \in DOMAIN core[i] : core[i][j] = "."

V6PartOK(core, i) ==
    \/ core[i] = <<>>
    \/ V6Dotted(core, i) /\ ParseIPv4(core[i]).ok
    \/ /\ ~V6Dotted(core, i)
       /\ Len(core[i]) \in 1..4
       /\ \A j \in DOMAIN core[i] : IsHexDigit(core[i][j])

\* The 16-bit groups part i stands for (none for the "::").
V6Vals(core, i) ==
    IF core[i] = <<>> THEN <<>>
    ELSE IF V6Dotted(core, i) THEN SubSeq(ParseIPv4(core[i]).groups, 7, 8)
    ELSE <<HexValOf(core[i])>>

RECURSIVE V6Cat(_, _, _)
V6Cat(core, i, j) ==
    IF i > j THEN <<>> ELSE V6Vals(core, i) \o V6Cat(core, i + 1, j)

\* empties: the places of "::" in core; g: the number of groups written.
V6Assemble(core, empties, g) ==
    IF Cardinality(empties) > 1 THEN NoIP
    ELSE IF empties = {}
    THEN IF g = 8 THEN [ok |-> TRUE, groups |-> V6Cat(core, 1, Len(core))]
         ELSE NoIP
    ELSE IF g > 7 THEN NoIP
    ELSE [ok |-> TRUE,
          groups |-> V6Cat(core, 1, (CHOOSE i \in empties : TRUE) - 1)
                     \o [i \in 1..(8 - g) |-> 0]
                     \o V6Cat(core, (CHOOSE i \in empties : TRUE) + 1,
                              Len(core))]

V6FromCore(core) ==
    IF \E i \in DOMAIN core : ~V6PartOK(core, i) THEN NoIP
    ELSE V6Assemble(core, {i \in DOMAIN core : core[i] = <<>>},
                    Len(V6Cat(core, 1, Len(core))))

V6FromParts(parts, n) ==
    IF \/ ~(parts[1] # <<>> \/ (n >= 3 /\ parts[2] = <<>>))
       \/ ~(parts[n] # <<>> \/ (n >= 3 /\ parts[n - 1] = <<>>))
    THEN NoIP
    ELSE V6FromCore(SubSeq(parts,
                           IF parts[1] = <<>> THEN 2 ELSE 1,
                           IF parts[n] = <<>> THEN n - 1 ELSE n))

ParseIPv6(s) == V6FromParts(Split(s, ":"), Len(Split(s, ":")))

\* net.ParseIP(s): the first "." or ":" of s selects the parser; a string
\* with neither is no address.
ParseIP(s) ==
    LET marks == {i \in DOMAIN s : s[i] \in {".", ":"}}
    IN  IF marks = {} THEN NoIP
        ELSE LET first == CHOOSE i \in marks : \A j \in marks : i <= j
             IN  IF s[first] = "." THEN ParseIPv4(s) ELSE ParseIPv6(s)

\* ip.To4() # nil: an IPv4 or IPv4-mapped address (first ten bytes zero,
\* then 0xff 0xff).
IsTo4(ip) ==
    /\ \A i \in 1..5 : ip.groups[i] = 0
    /\ ip.groups[6] = Half - 1

\* ipToUint32(ip.To4())
ipToUint32(ip) == <<ip.groups[7], ip.groups[8]>>

\* uint32ToIP(v): the four bytes in decimal, joined by ".".
uint32ToIP(v) ==
    Itoa(v[1] \div 256) \o <<".">> \o Itoa(v[1] % 256) \o <<".">>
        \o Itoa(v[2] \div 256) \o <<".">> \o Itoa(v[2] % 256)

(***************************************************************************)
(* internal/rir/parse.go                                                   *)
(***************************************************************************)

S_ipv4 == <<"i", "p", "v", "4">>

S_ipv6 == <<"i", "p", "v", "6">>

S_allocated == <<"a", "l", "l", "o", "c", "a", "t", "e", "d">>

S_assigned == <<"a", "s", "s", "i", "g", "n", "e", "d">>

S_ZZ == <<"Z", "Z">>

\* type Record struct { Prefix, Country string }
Record(prefix, country) == [Prefix |-> prefix, Country |-> country]

\* isCountryCode without its loop over the characters.
isCountryCodeLenOnly(cc) == Len(cc) = 2

isCountryCode(cc) ==
    /\ Len(cc) = 2
    /\ \A i \in DOMAIN cc : ~(Ord(cc[i]) < Ord("A") \/ Ord(cc[i]) > Ord("Z"))

\* The checks of ipv4RangeToCIDRs before its loop, on ip = net.ParseIP(start)
\* and count = strconv.Atoi(value): the address must parse and be an IPv4
\* (or IPv4-mapped) address, the count must be an integer > 0.
\* endU := startU + uint32(count) - 1, in uint32.
V4RangeOf(ip, count) ==
    IF ~ip.ok \/ ~IsTo4(ip) \/ ~count.ok \/ count.val <= 0
    THEN [ok |-> FALSE, startU |-> U32Zero, endU |-> U32Zero]
    ELSE [ok |-> TRUE, startU |-> ipToUint32(ip),
          endU |-> U32Sub(U32Add(ipToUint32(ip), U32OfInt(count.val)),
                          U32One)]

V4Range(start, value) == V4RangeOf(ParseIP(start), Atoi(value))

\* The inner loop of ipv4RangeToCIDRs: starting at prefix = 32, decrement
\* prefix while the block of that prefix is misaligned at cur or overruns
\* endU; stop at the first prefix whose block is aligned and fits.
RECURSIVE FindPrefix(_, _, _)
FindPrefix(cur, endU, prefix) ==
    IF prefix > 0
    THEN LET block == U32Shl1(32 - prefix)
         IN  IF \/ U32Mod(cur, block) # U32Zero
                \/ U32Lt(endU, U32Sub(U32Add(cur, block), U32One))
             THEN FindPrefix(cur, endU, prefix - 1)
             ELSE prefix
    ELSE prefix

\* One iteration of the outer loop of ipv4RangeToCIDRs: the record
\* appended and the next value of cur.
V4Block(cur, endU, cc) ==
    LET prefix == FindPrefix(cur, endU, 32)
    IN  [rec  |-> Record(uint32ToIP(cur) \o <<"/">> \o Itoa(prefix), cc),
         next |-> U32Add(cur, U32Shl1(32 - prefix))]

\* The outer loop of ipv4RangeToCIDRs, run to its end.
RECURSIVE V4Loop(_, _, _, _)
V4Loop(cur, endU, cc, out) ==
    IF U32Le(cur, endU)
    THEN LET b == V4Block(cur, endU, cc)
         IN  V4Loop(b.next, endU, cc, Append(out, b.rec))
    ELSE out

ipv4RangeToCIDRs(start, value, cc) ==
    LET r == V4Range(start, value)
    IN  IF r.ok THEN V4Loop(r.startU, r.endU, cc, <<>>) ELSE <<>>

NoRecord == [ok |-> FALSE, rec |-> Record(<<>>, <<>>)]

\* ipv6ToCIDR without the upper limit of the prefix length.
V6RecordNoLimit(ip, pfx, start, cc) ==
    IF ~ip.ok \/ IsTo4(ip) THEN NoRecord
    ELSE IF ~pfx.ok \/ pfx.val < 0 THEN NoRecord
    ELSE [ok  |-> TRUE,
          rec |-> Record(start \o <<"/">> \o Itoa(pfx.val), cc)]

\* ipv6ToCIDR on ip = net.ParseIP(start) and pfx = strconv.Atoi(value).
V6Record(ip, pfx, start, cc) ==
    IF ~ip.ok \/ IsTo4(ip) THEN NoRecord
    ELSE IF ~pfx.ok \/ pfx.val < 0 \/ pfx.val > 128 THEN NoRecord
    ELSE [ok  |-> TRUE,
          rec |-> Record(start \o <<"/">> \o Itoa(pfx.val), cc)]

ipv6ToCIDR(start, value, cc) ==
    V6Record(ParseIP(start), Atoi(value), start, cc)

SkipLine == [kind |-> "skip", start |-> <<>>, value |-> <<>>, cc |-> <<>>]

\* The scan loop of ParseDelegatedExtended from the status check to the
\* switch, on cc = strings.ToUpper(parts[1]), typ, start, value, status.
Classify(cc, typ, start, value, status) ==
    IF status # S_allocated /\ status # S_assigned THEN SkipLine
    ELSE IF ~isCountryCode(cc) \/ cc = S_ZZ THEN SkipLine
    ELSE IF typ = S_ipv4
    THEN [kind |-> "ipv4", start |-> start, value |-> value, cc |-> cc]
    ELSE IF typ = S_ipv6
    THEN [kind |-> "ipv6", start |-> start, value |-> value, cc |-> cc]
    ELSE SkipLine

\* parts = strings.Split(line, "|"): fewer than 7 fields are passed over.
ParseFields(parts) ==
    IF Len(parts) < 7 THEN SkipLine
    ELSE Classify(ToUpper(parts[2]), parts[3], parts[4], parts[5], parts[7])

\* The body of the scan loop of ParseDelegatedExtended up to its switch:
\* what one line asks for.
ParseLine(line) ==
    IF line = <<>> \/ HasPrefix(line, <<"#">>) THEN SkipLine
    ELSE ParseFields(Split(line, "|"))

\* if rec, ok := ipv6ToCIDR(...); ok { out = append(out, rec) }
SomeRecord(r) == IF r.ok THEN <<r.rec>> ELSE <<>>

\* The switch of the scan loop: the records one accepted line appends.
SwitchRecords(l) ==
    IF l.kind = "ipv4" THEN ipv4RangeToCIDRs(l.start, l.value, l.cc)
    ELSE IF l.kind = "ipv6"
    THEN SomeRecord(ipv6ToCIDR(l.start, l.value, l.cc))
    ELSE <<>>

\* The records one line appends to out.
LineRecords(line) == SwitchRecords(ParseLine(line))

\* A body is the sequence of its lines.  A line is [text, long]: long marks
\* a line longer than the scanner's buffer limit (sc.Buffer(..., 4 MiB)), on
\* which sc.Scan() stops and sc.Err() is bufio.ErrTooLong.
RECURSIVE ScanFrom(_, _, _)
ScanFrom(body, i, out) ==
    IF i > Len(body) THEN [recs |-> out, err |-> "nil"]
    ELSE IF body[i].long THEN [recs |-> out, err |-> "ErrTooLong"]
    ELSE ScanFrom(body, i + 1, out \o LineRecords(body[i].text))

ParseDelegatedExtended(body) == ScanFrom(body, 1, <<>>)

(***************************************************************************)
(* Inputs of the parser: lines of the "delegated extended" format          *)
(* registry|cc|type|start|value|date|status|...                            *)
(***************************************************************************)

CountryFields ==
    { <<"A", "U">>,
      <<"a", "u">>,
      <<"U", "S">>,
      <<"Z", "Z">>,
      <<"z", "z">>,
      <<"A", "1">>,
      <<"U", "S", "A">>,
      <<"A">>,
      <<>> }

StatusFields ==
    { <<"a", "l", "l", "o", "c", "a", "t", "e", "d">>,
      <<"a", "s", "s", "i", "g", "n", "e", "d">>,
      <<"a", "v", "a", "i", "l", "a", "b", "l", "e">>,
      <<"r", "e", "s", "e", "r", "v", "e", "d">> }

TypeFields == {S_ipv4, S_ipv6, <<"a", "s", "n">>}

\* <<start, value>> pairs written for ipv4 records: a start address and a count.
V4StartValues ==
    { <<<<"1", ".", "0", ".", "0", ".", "0">>,
       <<"2", "5", "6">>>>,
      <<<<"1", ".", "0", ".", "0", ".", "0">>,
       <<"2">>>>,
      <<<<"1", ".", "0", ".", "0", ".", "1">>,
       <<"3">>>>,
      <<<<"1", ".", "0", ".", "0", ".", "4">>,
       <<"4">>>>,
      <<<<"2", "5", "5", ".", "2", "5", "5", ".", "2", "5", "5", ".", "2", "5", "5">>,
       <<"1">>>>,
      <<<<"2", "5", "5", ".", "2", "5", "5", ".", "2", "5", "5", ".", "2", "5", "4">>,
       <<"2">>>>,
      <<<<"2", "5", "5", ".", "2", "5", "5", ".", "2", "5", "5", ".", "2", "5", "4">>,
       <<"3">>>>,
      <<<<"1", ".", "0", ".", "0", ".", "0">>,
       <<"0">>>>,
      <<<<"1", ".", "0", ".", "0", ".", "0">>,
       <<"-", "1">>>>,
      <<<<"1", ".", "0", ".", "0", ".", "0">>,
       <<"x">>>>,
      <<<<"1", ".", "0", ".", "0", ".", "0">>,
       <<>>>>,
      <<<<"1", ".", "0", ".", "0">>,
       <<"1">>>>,
      <<<<"0", "1", ".", "0", ".", "0", ".", "0">>,
       <<"1">>>>,
      <<<<"2", "5", "6", ".", "0", ".", "0", ".", "0">>,
       <<"1">>>>,
      <<<<":", ":", "f", "f", "f", "f", ":", "1", ".", "0", ".", "0", ".", "0">>,
       <<"1">>>> }

\* <<start, value>> pairs written for ipv6 records: a start address and a
\* prefix length.
V6StartValues ==
    { <<<<"2", "a", "0", "0", ":", "1", "4", "5", "0", ":", ":">>,
       <<"3", "2">>>>,
      <<<<"2", "a", "0", "0", ":", "1", "4", "5", "0", ":", ":">>,
       <<"0">>>>,
      <<<<"2", "a", "0", "0", ":", "1", "4", "5", "0", ":", ":">>,
       <<"1", "2", "8">>>>,
      <<<<"2", "a", "0", "0", ":", "1", "4", "5", "0", ":", ":">>,
       <<"1", "2", "9">>>>,
      <<<<"2", "a", "0", "0", ":", "1", "4", "5", "0", ":", ":">>,
       <<"-", "1">>>>,
      <<<<"2", "a", "0", "0", ":", "1", "4", "5", "0", ":", ":">>,
       <<"x">>>>,
      <<<<"2", "a", "0", "0", ":", "1", "4", "5", "0", ":", ":">>,
       <<"+", "3", "2">>>>,
      <<<<"2", "A", "0", "0", ":", "1", "4", "5", "0", ":", "0", ":", "0", ":", "0", ":", "0", ":", "0", ":", "1">>,
       <<"6", "4">>>>,
      <<<<":", ":">>,
       <<"0">>>>,
      <<<<":", ":", "f", "f", "f", "f", ":", "1", "0", "0", ":", "0">>,
       <<"3", "2">>>>,
      <<<<"2", "a", "0", "0", ":", "1", "4", "5", "0", ":", ":", "g">>,
       <<"3", "2">>>>,
      <<<<"2", "a", "0", "0", ":", ":", "1", "4", "5", "0", ":", ":">>,
       <<"3", "2">>>>,
      <<<<"2", "a", "0", "0", ":", "1", "4", "5", "0">>,
       <<"3", "2">>>>,
      <<<<>>,
       <<>>>> }

S_arin == <<"a", "r", "i", "n">>

S_ripe == <<"r", "i", "p", "e">>

S_US == <<"U", "S">>

S_date == <<"2", "0", "1", "1", "0", "8", "1", "1">>

S_AU == <<"A", "U">>

\* strings.Join(fields, "|")
RECURSIVE Join(_)
Join(fields) ==
    IF Len(fields) = 1 THEN fields[1]
    ELSE fields[1] \o <<"|">> \o Join(Tail(fields))

Line(cc, typ, sv, status) ==
    Join(<<S_arin, cc, typ, sv[1], sv[2], S_date, status>>)

\* The README's two examples, as input lines.
LineAU == Line(S_AU, S_ipv4, <<<<"1", ".", "0", ".", "0", ".", "0">>, <<"2", "5", "6">>>>, S_allocated)

LineV6 ==
    Join(<<S_ripe, S_US, S_ipv6, <<"2", "a", "0", "0", ":", "1", "4", "5", "0", ":", ":">>,
           <<"3", "2">>, <<"2", "0", "0", "9", "0", "2", "2", "3">>, S_allocated>>)

\* Every start/value pair under every type; every country field under every
\* status; a blank line, a comment, a line of 6 fields, lines of 8 fields.
ParseLines ==
    {Line(S_AU, typ, sv, S_allocated) :
        typ \in TypeFields, sv \in V4StartValues \cup V6StartValues}
    \cup {Line(cc, S_ipv4, <<<<"1", ".", "0", ".", "0", ".", "0">>, <<"2">>>>, st) :
            cc \in CountryFields, st \in StatusFields}
    \cup {Line(cc, S_ipv6, <<<<"2", "a", "0", "0", ":", "1", "4", "5", "0", ":", ":">>, <<"3", "2">>>>, st) :
            cc \in CountryFields, st \in StatusFields}
    \cup { <<>>,
           LineV6,
           <<"#">> \o LineAU,
           Join(<<S_arin, S_AU, S_ipv4, <<"1", ".", "0", ".", "0", ".", "0">>, <<"2">>, S_allocated>>),
           LineAU \o <<"|", "x">>,
           LineV6 \o <<"|">> }

Short(text) == [text |-> text, long |-> FALSE]

\* A line longer than the scanner's buffer limit.
TooLong(text) == [text |-> text, long |-> TRUE]

\* Bodies of one line, of one line followed by a good line, and bodies with
\* a line the scanner cannot hold.
ParseBodies ==
    {<<Short(l)>> : l \in ParseLines}
    \cup {<<Short(l), Short(LineV6)>> : l \in ParseLines}
    \cup { <<>>,
           <<TooLong(LineAU)>>,
           <<Short(LineV6), TooLong(<<"#">>), Short(LineAU)>> }

(***************************************************************************)
(* internal/rir/sources.go and cmd/build-countrydb/main.go                 *)
(***************************************************************************)

S_apnic == <<"a", "p", "n", "i", "c">>

S_lacnic == <<"l", "a", "c", "n", "i", "c">>

S_afrinic == <<"a", "f", "r", "i", "n", "i", "c">>

\* The keys of the map rir.Sources.
Sources == {S_arin, S_ripe, S_apnic, S_lacnic, S_afrinic}

\* A loop bound of one attempt more.
maxRetriesOneMore == 5 + 1

\* const maxRetries = 5
maxRetries == 5

S_delegated ==
    <<"-", "d", "e", "l", "e", "g", "a", "t", "e", "d">>

S_conflict ==
    <<"c", "o", "u", "n", "t", "r", "y", " ", "c", "o", "n", "f",
      "l", "i", "c", "t", " ", "f", "o", "r", " ", "p", "r", "e",
      "f", "i", "x", " ">>

S_failed ==
    <<"f", "a", "i", "l", "e", "d", " ", "t", "o", " ", "f", "e",
      "t", "c", "h", " ">>

S_after ==
    <<" ", "a", "f", "t", "e", "r", " ">>

S_attempts ==
    <<" ", "a", "t", "t", "e", "m", "p", "t", "s", ":", " ">>

S_header ==
    <<"p", "r", "e", "f", "i", "x", ",", "c", "o", "u", "n", "t",
      "r", "y">>

S_csvgz ==
    <<"c", "o", "u", "n", "t", "r", "y", "d", "b", ".", "c", "s",
      "v", ".", "g", "z">>

\* The text of an error value (%v).
ErrText(err) ==
    CASE err = "connect"    -> <<"c", "o", "n", "n", "e", "c", "t">>
      [] err = "read"       -> <<"r", "e", "a", "d">>
      [] err = "ErrTooLong" -> <<"t", "o", "o", " ", "l", "o", "n", "g">>
      [] OTHER              -> <<"n", "i", "l">>

\* strings.Contains(s, sub)
Contains(s, sub) ==
    \E i \in 0..(Len(s) - Len(sub)) : SubSeq(s, i + 1, i + Len(sub)) = sub

\* The merge loop of build(): seen maps a prefix to the country first
\* recorded for it; a record whose prefix is seen with another country
\* panics; a record whose prefix is not seen is recorded and appended.
\* The result carries the locals of the panic (r.Prefix, prev, r.Country).
RECURSIVE MergeFrom(_, _, _, _)
MergeFrom(all, i, seen, out) ==
    IF i > Len(all)
    THEN [conflict |-> FALSE, out |-> out, msg |-> <<>>,
          prefix |-> <<>>, prev |-> <<>>, country |-> <<>>]
    ELSE LET r == all[i]
         IN  IF r.Prefix \in DOMAIN seen /\ seen[r.Prefix] # r.Country
             THEN [conflict |-> TRUE, out |-> <<>>,
                   msg |-> S_conflict \o r.Prefix,
                   prefix |-> r.Prefix, prev |-> seen[r.Prefix],
                   country |-> r.Country]
             ELSE IF r.Prefix \notin DOMAIN seen
             THEN MergeFrom(all, i + 1, seen @@ (r.Prefix :> r.Country),
                            Append(out, r))
             ELSE MergeFrom(all, i + 1, seen, out)

\* The merge loop without its conflict panic: the first country stands.
RECURSIVE MergeFromNoPanic(_, _, _, _)
MergeFromNoPanic(all, i, seen, out) ==
    IF i > Len(all)
    THEN [conflict |-> FALSE, out |-> out, msg |-> <<>>,
          prefix |-> <<>>, prev |-> <<>>, country |-> <<>>]
    ELSE IF all[i].Prefix \notin DOMAIN seen
    THEN MergeFromNoPanic(all, i + 1,
                          seen @@ (all[i].Prefix :> all[i].Country),
                          Append(out, all[i]))
    ELSE MergeFromNoPanic(all, i + 1, seen, out)

MergeNoPanic(all) == MergeFromNoPanic(all, 1, <<>>, <<>>)

\* The merge loop appending every record that is no conflict, seen or not.
RECURSIVE MergeFromKeepAll(_, _, _, _)
MergeFromKeepAll(all, i, seen, out) ==
    IF i > Len(all)
    THEN [conflict |-> FALSE, out |-> out, msg |-> <<>>,
          prefix |-> <<>>, prev |-> <<>>, country |-> <<>>]
    ELSE IF all[i].Prefix \in DOMAIN seen /\ seen[all[i].Prefix] # all[i].Country
    THEN [conflict |-> TRUE, out |-> <<>>,
          msg |-> S_conflict \o all[i].Prefix,
          prefix |-> all[i].Prefix, prev |-> seen[all[i].Prefix],
          country |-> all[i].Country]
    ELSE IF all[i].Prefix \notin DOMAIN seen
    THEN MergeFromKeepAll(all, i + 1,
                          seen @@ (all[i].Prefix :> all[i].Country),
                          Append(out, all[i]))
    ELSE MergeFromKeepAll(all, i + 1, seen, Append(out, all[i]))

MergeKeepAll(all) == MergeFromKeepAll(all, 1, <<>>, <<>>)

Merge(all) == MergeFrom(all, 1, <<>>, <<>>)

\* sort.Strings(src): insertion into increasing byte order.
RECURSIVE InsertStr(_, _)
InsertStr(sorted, x) ==
    IF sorted = <<>> THEN <<x>>
    ELSE IF StrLess(x, Head(sorted)) THEN <<x>> \o sorted
    ELSE <<Head(sorted)>> \o InsertStr(Tail(sorted), x)

RECURSIVE SortStrings(_)
SortStrings(src) ==
    IF src = <<>> THEN <<>>
    ELSE InsertStr(SortStrings(SubSeq(src, 1, Len(src) - 1)), src[Len(src)])

\* main without its sort.Slice call: recs stay as build returned them.
SortSliceSkipped(recs) == {recs}

\* sort.Slice(recs, func(i, j) { return recs[i].Prefix < recs[j].Prefix }):
\* not stable, so every arrangement of recs in which no record precedes one
\* of a smaller prefix is a possible result.
SortSlice(recs) ==
    LET n == Len(recs)
    IN  {[i \in 1..n |-> recs[p[i]]] : p \in
            {q \in Permutations(1..n) :
                \A i, j \in 1..n :
                    i < j => ~StrLess(recs[q[j]].Prefix, recs[q[i]].Prefix)}}

\* The text writeCSVGZ hands to the gzip writer: the header line, then one
\* line per record, in the order of records.
CSVLines(records) ==
    <<S_header>> \o
    [i \in 1..Len(records) |->
        records[i].Prefix \o <<",">> \o records[i].Country]

\* The compressed bytes of a text and their SHA-256 digest, as functions of
\* the text: gzip with no name and no modification time, and sha256, are
\* deterministic.
Gzip(lines) == [gzip |-> lines]

Sha256Hex(bytes) == [sha256 |-> bytes]

(***************************************************************************)
(* State                                                                   *)
(***************************************************************************)

VARIABLES
    \* ParseDelegatedExtended, run line by line
    ppc,        \* "idle", "scan" (the for sc.Scan() loop), "v4loop", "return"
    body,       \* the lines behind the reader r
    pos,        \* index of the line the next sc.Scan() delivers
    pout,       \* out of ParseDelegatedExtended
    perr,       \* sc.Err()
    lineRecs,   \* per line scanned so far, the records it appended to out
    startU,     \* ipv4RangeToCIDRs: startU
    endU,       \* ipv4RangeToCIDRs: endU
    cur,        \* ipv4RangeToCIDRs: cur
    v4cc,       \* ipv4RangeToCIDRs: cc
    v4out,      \* ipv4RangeToCIDRs: out
    \* main, build and fetchWithRetry
    pc,         \* position of the run
    snapshot,   \* the body each source's URL serves
    iter,       \* the names the range over rir.Sources has yielded so far
    attempt,    \* fetchWithRetry: attempt
    lastErr,    \* fetchWithRetry: lastErr
    all,        \* build: all
    src,        \* build: src
    out,        \* build: out (the merged records)
    recs,       \* main: recs
    artifact,   \* the file countrydb.csv.gz
    sidecar,    \* the file countrydb.csv.gz.sha256
    manifest,   \* the file releases/latest.json
    panicMsg,   \* the value the run panicked with
    fatalAt,    \* the position at which the run panicked
    conflict,   \* build: r.Prefix, prev and r.Country at the conflict panic
    requests,   \* fetchWithRetry: the client.Do(req) calls it has made
    parseFails, \* fetchWithRetry: the bodies the parser has rejected
    fetched     \* the sources fetchWithRetry has returned records for

parseVars ==
    <<ppc, body, pos, pout, perr, lineRecs, startU, endU, cur, v4cc, v4out>>

pipeVars ==
    <<pc, snapshot, iter, attempt, lastErr, all, src, out, recs, artifact,
      sidecar, manifest, panicMsg, fatalAt, conflict, requests, parseFails,
      fetched>>

vars == <<parseVars, pipeVars>>

\* The most records one call of ipv4RangeToCIDRs is followed for.
MaxOut == 260

NoFile == [state |-> "absent", data |-> <<>>]

PartialFile == [state |-> "partial", data |-> <<>>]

File(data) == [state |-> "complete", data |-> data]

NoConflict == [prefix |-> <<>>, prev |-> <<>>, country |-> <<>>]

ParseIdle ==
    /\ ppc = "idle"
    /\ body = <<>>
    /\ pos = 1
    /\ pout = <<>>
    /\ perr = "nil"
    /\ lineRecs = <<>>
    /\ startU = U32Zero
    /\ endU = U32Zero
    /\ cur = U32Zero
    /\ v4cc = <<>>
    /\ v4out = <<>>

PipeIdle ==
    /\ pc = "idle"
    /\ snapshot = [n \in Sources |-> <<>>]
    /\ iter = <<>>
    /\ attempt = 1
    /\ lastErr = "nil"
    /\ all = <<>>
    /\ src = <<>>
    /\ out = <<>>
    /\ recs = <<>>
    /\ artifact = NoFile
    /\ sidecar = NoFile
    /\ manifest = NoFile
    /\ panicMsg = <<>>
    /\ fatalAt = "none"
    /\ conflict = NoConflict
    /\ requests = 0
    /\ parseFails = 0
    /\ fetched = {}

(***************************************************************************)
(* ParseDelegatedExtended, step by step                                    *)
(***************************************************************************)

InitParse ==
    /\ PipeIdle
    /\ ppc = "scan"
    /\ body \in ParseBodies
    /\ pos = 1
    /\ pout = <<>>
    /\ perr = "nil"
    /\ lineRecs = <<>>
    /\ startU = U32Zero
    /\ endU = U32Zero
    /\ cur = U32Zero
    /\ v4cc = <<>>
    /\ v4out = <<>>

Scanning == ppc = "scan" /\ pos <= Len(body) /\ ~body[pos].long

\* A line the scan loop passes over (continue), or whose type is neither
\* "ipv4" nor "ipv6".
ScanSkip ==
    /\ Scanning
    /\ ParseLine(body[pos].text).kind = "skip"
    /\ pos' = pos + 1
    /\ lineRecs' = Append(lineRecs, <<>>)
    /\ UNCHANGED <<ppc, body, pout, perr, startU, endU, cur, v4cc, v4out>>
    /\ UNCHANGED pipeVars

ScanIPv6Of(l) ==
    /\ l.kind = "ipv6"
    /\ pout' = pout \o SomeRecord(ipv6ToCIDR(l.start, l.value, l.cc))
    /\ lineRecs' = Append(lineRecs, SubSeq(pout', Len(pout) + 1, Len(pout')))

\* case "ipv6": append the record of ipv6ToCIDR when it gives one.
ScanIPv6 ==
    /\ Scanning
    /\ ScanIPv6Of(ParseLine(body[pos].text))
    /\ pos' = pos + 1
    /\ UNCHANGED <<ppc, body, perr, startU, endU, cur, v4cc, v4out>>
    /\ UNCHANGED pipeVars

V4EnterOf(l, r) ==
    /\ l.kind = "ipv4"
    /\ IF r.ok
       THEN /\ startU' = r.startU
            /\ endU' = r.endU
            /\ cur' = r.startU
            /\ v4cc' = l.cc
            /\ v4out' = <<>>
            /\ ppc' = "v4loop"
            /\ UNCHANGED <<pos, lineRecs>>
       ELSE /\ pos' = pos + 1
            /\ lineRecs' = Append(lineRecs, <<>>)
            /\ UNCHANGED <<ppc, startU, endU, cur, v4cc, v4out>>

V4EnterLine(l) == V4EnterOf(l, V4Range(l.start, l.value))

\* case "ipv4": ipv4RangeToCIDRs returns nil before its loop (the line
\* appends nothing), or reaches its loop with cur := startU.
V4Enter ==
    /\ Scanning
    /\ V4EnterLine(ParseLine(body[pos].text))
    /\ UNCHANGED <<body, pout, perr>>
    /\ UNCHANGED pipeVars

\* One iteration of for cur <= endU: append a record, advance cur.
V4Iter ==
    /\ ppc = "v4loop"
    /\ U32Le(cur, endU)
    /\ Len(v4out) < MaxOut
    /\ LET b == V4Block(cur, endU, v4cc)
       IN  /\ v4out' = Append(v4out, b.rec)
           /\ cur' = b.next
    /\ UNCHANGED <<ppc, body, pos, pout, perr, lineRecs, startU, endU, v4cc>>
    /\ UNCHANGED pipeVars

\* cur > endU: ipv4RangeToCIDRs returns out, which the scan loop appends.
V4Return ==
    /\ ppc = "v4loop"
    /\ ~U32Le(cur, endU)
    /\ pout' = pout \o v4out
    /\ lineRecs' = Append(lineRecs, v4out)
    /\ pos' = pos + 1
    /\ ppc' = "scan"
    /\ UNCHANGED <<body, perr, startU, endU, cur, v4cc, v4out>>
    /\ UNCHANGED pipeVars

\* sc.Scan() is false at the end of the input: return out, nil.
ScanEnd ==
    /\ ppc = "scan"
    /\ pos > Len(body)
    /\ ppc' = "return"
    /\ perr' = "nil"
    /\ UNCHANGED <<body, pos, pout, lineRecs, startU, endU, cur, v4cc, v4out>>
    /\ UNCHANGED pipeVars

\* sc.Scan() is false at a line the buffer cannot hold: return out, err.
ScanTooLong ==
    /\ ppc = "scan"
    /\ pos <= Len(body)
    /\ body[pos].long
    /\ ppc' = "return"
    /\ perr' = "ErrTooLong"
    /\ UNCHANGED <<body, pos, pout, lineRecs, startU, endU, cur, v4cc, v4out>>
    /\ UNCHANGED pipeVars

NextParse ==
    \/ ScanSkip
    \/ ScanIPv6
    \/ V4Enter
    \/ V4Iter
    \/ V4Return
    \/ ScanEnd
    \/ ScanTooLong

SpecParse == InitParse /\ [][NextParse]_vars

(***************************************************************************)
(* The run of main: build (fetch every source, merge), sort, write         *)
(***************************************************************************)

LineAU2 == Line(S_AU, S_ipv4, <<<<"1", ".", "0", ".", "0", ".", "0">>, <<"2">>>>, S_allocated)

LineUS1 == Line(S_US, S_ipv4, <<<<"1", ".", "0", ".", "0", ".", "1">>, <<"1">>>>, S_assigned)

\* The bodies a varied source may serve: two AU addresses; a US address
\* that is one of the two AU addresses; an IPv6 prefix and the AU range
\* again; both countries for one address in one body; a body with a line
\* the scanner cannot hold.
PipeBodies ==
    { <<Short(LineAU2)>>,
      <<Short(LineUS1)>>,
      <<Short(LineV6), Short(LineAU2)>>,
      <<Short(LineAU2), Short(LineUS1)>>,
      <<Short(LineAU2), TooLong(LineV6)>> }

\* Two sources serve any of these bodies; the others serve the empty body.
Snapshots ==
    {[n \in Sources |->
        IF n = S_arin THEN a ELSE IF n = S_ripe THEN b ELSE <<>>] :
        a \in PipeBodies, b \in PipeBodies}

Init ==
    /\ ParseIdle
    /\ pc = "range"
    /\ snapshot \in Snapshots
    /\ iter = <<>>
    /\ attempt = 1
    /\ lastErr = "nil"
    /\ all = <<>>
    /\ src = <<>>
    /\ out = <<>>
    /\ recs = <<>>
    /\ artifact = NoFile
    /\ sidecar = NoFile
    /\ manifest = NoFile
    /\ panicMsg = <<>>
    /\ fatalAt = "none"
    /\ conflict = NoConflict
    /\ requests = 0
    /\ parseFails = 0
    /\ fetched = {}

\* The source fetchWithRetry is running for.
name == iter[Len(iter)]

Yielded == {iter[i] : i \in DOMAIN iter}

\* panic(v): the run ends; deferred calls change no file.
Panic(msg) ==
    /\ pc' = "fatal"
    /\ fatalAt' = pc
    /\ panicMsg' = msg

\* for name, url := range rir.Sources: the map yields its keys in any order.
\* The loop body begins: fetchWithRetry(client, name, url), attempt := 1.
RangeNext ==
    /\ pc = "range"
    /\ \E n \in Sources \ Yielded : iter' = Append(iter, n)
    /\ attempt' = 1
    /\ lastErr' = "nil"
    /\ requests' = 0
    /\ parseFails' = 0
    /\ pc' = "fetch"
    /\ UNCHANGED <<snapshot, all, src, out, recs, artifact, sidecar, manifest,
                   panicMsg, fatalAt, conflict, fetched>>
    /\ UNCHANGED parseVars

Attempting == pc = "fetch" /\ attempt <= maxRetries

\* client.Do(req) fails (err # nil), or io.ReadAll(resp.Body) fails: record
\* the error, sleep attempt*10 s, continue with attempt+1.
TransportFail ==
    /\ Attempting
    /\ requests' = requests + 1
    /\ \/ lastErr' = "connect"
       \/ lastErr' = "read"
    /\ attempt' = attempt + 1
    /\ UNCHANGED <<pc, snapshot, iter, all, src, out, recs, artifact, sidecar,
                   manifest, panicMsg, fatalAt, conflict, parseFails, fetched>>
    /\ UNCHANGED parseVars

\* The parse error handled by a panic instead of continue.
ParseFailAborts ==
    /\ Attempting
    /\ LET p == ParseDelegatedExtended(snapshot[name])
       IN  /\ p.err # "nil"
           /\ lastErr' = p.err
           /\ Panic(ErrText(p.err))
    /\ requests' = requests + 1
    /\ parseFails' = parseFails + 1
    /\ UNCHANGED <<snapshot, iter, attempt, all, src, out, recs, artifact,
                   sidecar, manifest, conflict, fetched>>
    /\ UNCHANGED parseVars

\* The body is downloaded and rir.ParseDelegatedExtended returns an error:
\* record the error, continue with attempt+1.
ParseFail ==
    /\ Attempting
    /\ LET p == ParseDelegatedExtended(snapshot[name])
       IN  /\ p.err # "nil"
           /\ lastErr' = p.err
    /\ requests' = requests + 1
    /\ parseFails' = parseFails + 1
    /\ attempt' = attempt + 1
    /\ UNCHANGED <<pc, snapshot, iter, all, src, out, recs, artifact, sidecar,
                   manifest, panicMsg, fatalAt, conflict, fetched>>
    /\ UNCHANGED parseVars

\* The body is downloaded and parsed: fetchWithRetry returns recs (its
\* locals attempt and lastErr end), and the loop body of build appends them
\* to all and name+"-delegated" to src.
FetchOk ==
    /\ Attempting
    /\ LET p == ParseDelegatedExtended(snapshot[name])
       IN  /\ p.err = "nil"
           /\ all' = all \o p.recs
    /\ requests' = requests + 1
    /\ src' = Append(src, name \o S_delegated)
    /\ fetched' = fetched \cup {name}
    /\ attempt' = 1
    /\ lastErr' = "nil"
    /\ pc' = "range"
    /\ UNCHANGED <<snapshot, iter, out, recs, artifact, sidecar, manifest,
                   panicMsg, fatalAt, conflict, parseFails>>
    /\ UNCHANGED parseVars

\* attempt > maxRetries: the loop of fetchWithRetry ends and it panics.
FetchGiveUp ==
    /\ pc = "fetch"
    /\ attempt > maxRetries
    /\ Panic(S_failed \o name \o S_after \o Itoa(maxRetries) \o S_attempts
             \o ErrText(lastErr))
    /\ UNCHANGED <<snapshot, iter, attempt, lastErr, all, src, out, recs,
                   artifact, sidecar, manifest, conflict, requests,
                   parseFails, fetched>>
    /\ UNCHANGED parseVars

\* The range is exhausted (no fetchWithRetry call is left to count for):
\* the merge loop of build runs over all.  Either it panics at a conflict,
\* or build sorts src and returns out, src.
BuildMerge ==
    /\ pc = "range"
    /\ Yielded = Sources
    /\ LET m == Merge(all)
       IN  IF m.conflict
           THEN /\ Panic(m.msg)
                /\ conflict' = [prefix |-> m.prefix, prev |-> m.prev,
                                country |-> m.country]
                /\ UNCHANGED <<out, src>>
           ELSE /\ out' = m.out
                /\ src' = SortStrings(src)
                /\ pc' = "sort"
                /\ UNCHANGED <<panicMsg, fatalAt, conflict>>
    /\ requests' = 0
    /\ parseFails' = 0
    /\ UNCHANGED <<snapshot, iter, attempt, lastErr, all, recs, artifact,
                   sidecar, manifest, fetched>>
    /\ UNCHANGED parseVars

\* main: sort.Slice(recs, ...) on the records build returned.
SortRecs ==
    /\ pc = "sort"
    /\ recs' \in SortSlice(out)
    /\ pc' = "mkdir"
    /\ UNCHANGED <<snapshot, iter, attempt, lastErr, all, src, out, artifact,
                   sidecar, manifest, panicMsg, fatalAt, conflict, requests,
                   parseFails, fetched>>
    /\ UNCHANGED parseVars

IOError == <<"i", "o">>

\* must(os.MkdirAll(releaseDir, 0o755))
MkdirRelease ==
    /\ pc = "mkdir"
    /\ \/ pc' = "csv" /\ UNCHANGED <<panicMsg, fatalAt>>
       \/ Panic(IOError)
    /\ UNCHANGED <<snapshot, iter, attempt, lastErr, all, src, out, recs,
                   artifact, sidecar, manifest, conflict, requests,
                   parseFails, fetched>>
    /\ UNCHANGED parseVars

\* writeCSVGZ(gz, recs): os.Create may fail (no file); the writes to the
\* gzip writer are unchecked, but gw.Close() returns the first error of any
\* of them (a file cut short); os.Stat may fail (the file is whole);
\* otherwise the file holds the compressed text.
WriteCSVGZ ==
    /\ pc = "csv"
    /\ \/ Panic(IOError) /\ UNCHANGED artifact
       \/ Panic(IOError) /\ artifact' = PartialFile
       \/ Panic(IOError) /\ artifact' = File(Gzip(CSVLines(recs)))
       \/ /\ artifact' = File(Gzip(CSVLines(recs)))
          /\ pc' = "sha"
          /\ UNCHANGED <<panicMsg, fatalAt>>
    /\ UNCHANGED <<snapshot, iter, attempt, lastErr, all, src, out, recs,
                   sidecar, manifest, conflict, requests, parseFails, fetched>>
    /\ UNCHANGED parseVars

\* must(os.WriteFile(gz+".sha256", "<sha>  countrydb.csv.gz\n")): a failed
\* os.WriteFile leaves no file (open failed) or a file cut short.
WriteSha ==
    /\ pc = "sha"
    /\ \/ Panic(IOError) /\ UNCHANGED sidecar
       \/ Panic(IOError) /\ sidecar' = PartialFile
       \/ /\ sidecar' = File(<<Sha256Hex(artifact.data), S_csvgz>>)
          /\ pc' = "mkdir2"
          /\ UNCHANGED <<panicMsg, fatalAt>>
    /\ UNCHANGED <<snapshot, iter, attempt, lastErr, all, src, out, recs,
                   artifact, manifest, conflict, requests, parseFails,
                   fetched>>
    /\ UNCHANGED parseVars

\* must(os.MkdirAll(filepath.Join(*out, "releases"), 0o755))
MkdirReleases ==
    /\ pc = "mkdir2"
    /\ \/ pc' = "json" /\ UNCHANGED <<panicMsg, fatalAt>>
       \/ Panic(IOError)
    /\ UNCHANGED <<snapshot, iter, attempt, lastErr, all, src, out, recs,
                   artifact, sidecar, manifest, conflict, requests,
                   parseFails, fetched>>
    /\ UNCHANGED parseVars

\* The Latest value main builds (the version and the time of the run, which
\* are inputs of the run, are left out).
Latest ==
    [Name      |-> "deflect-geoip-country",
     Sources   |-> src,
     Artifacts |-> <<[Type   |-> S_csvgz,
                      Sha256 |-> Sha256Hex(artifact.data),
                      Bytes  |-> [sizeOf |-> artifact.data]]>>]

\* writeJSON(".../latest.json", latest): os.WriteFile, as for the sidecar.
WriteJSON ==
    /\ pc = "json"
    /\ \/ Panic(IOError) /\ UNCHANGED manifest
       \/ Panic(IOError) /\ manifest' = PartialFile
       \/ /\ manifest' = File(Latest)
          /\ pc' = "done"
          /\ UNCHANGED <<panicMsg, fatalAt>>
    /\ UNCHANGED <<snapshot, iter, attempt, lastErr, all, src, out, recs,
                   artifact, sidecar, conflict, requests, parseFails, fetched>>
    /\ UNCHANGED parseVars

Next ==
    \/ RangeNext
    \/ TransportFail
    \/ ParseFail
    \/ FetchOk
    \/ FetchGiveUp
    \/ BuildMerge
    \/ SortRecs
    \/ MkdirRelease
    \/ WriteCSVGZ
    \/ WriteSha
    \/ MkdirReleases
    \/ WriteJSON

Spec == Init /\ [][Next]_vars

(***************************************************************************)
(* Properties of the IPv4 decomposition (checked under SpecParse)          *)
(***************************************************************************)

\* The block a record of ipv4RangeToCIDRs denotes, read back from its
\* prefix string "a.b.c.d/len": first address, prefix length, last address.
BlockOfParts(p) ==
    [addr |-> ipToUint32(ParseIPv4(p[1])),
     len  |-> Atoi(p[2]).val,
     last |-> U32Sub(U32Add(ipToUint32(ParseIPv4(p[1])),
                            U32Shl1(32 - Atoi(p[2]).val)), U32One)]

BlockOf(rec) == BlockOfParts(Split(rec.Prefix, "/"))

BlockSize(b) == U32Shl1(32 - b.len)

\* ipv4RangeToCIDRs is running, with at least one address in [startU, endU].
InV4Loop == ppc = "v4loop" /\ U32Le(startU, endU)

\* The loop of ipv4RangeToCIDRs has reached its exit: out is what it returns.
V4AtExit == InV4Loop /\ ~U32Le(cur, endU)

\* C1: the blocks ipv4RangeToCIDRs emits are, in 32-bit unsigned
\* arithmetic, inside [start, start+count-1], in increasing address order
\* with neither gap nor overlap (the first begins at start, each next one
\* begins right after the last address of the one before), each aligned to
\* its size; and when the function returns they end at start+count-1.
C1_ExactCover ==
    InV4Loop =>
        /\ \A i \in DOMAIN v4out :
              /\ U32Le(startU, BlockOf(v4out[i]).addr)
              /\ U32Le(BlockOf(v4out[i]).addr, BlockOf(v4out[i]).last)
              /\ U32Le(BlockOf(v4out[i]).last, endU)
              /\ U32Mod(BlockOf(v4out[i]).addr, BlockSize(BlockOf(v4out[i])))
                    = U32Zero
              /\ IF i = 1 THEN BlockOf(v4out[i]).addr = startU
                 ELSE /\ U32Lt(BlockOf(v4out[i - 1]).last,
                               BlockOf(v4out[i]).addr)
                      /\ BlockOf(v4out[i]).addr
                            = U32Add(BlockOf(v4out[i - 1]).last, U32One)
        /\ V4AtExit =>
              /\ v4out # <<>>
              /\ BlockOf(v4out[Len(v4out)]).last = endU

\* Two blocks that follow one another and could be one larger aligned
\* block: equal sizes, and the first aligned to twice that size.
Mergeable(a, b) ==
    /\ a.len = b.len
    /\ a.len > 0
    /\ b.addr = U32Add(a.last, U32One)
    /\ U32Mod(a.addr, U32Shl1(32 - (a.len - 1))) = U32Zero

\* The number of addresses of [startU, endU] is 2^k and startU is a
\* multiple of 2^k.
AlignedPowerOfTwo(k) ==
    /\ U32Add(U32Sub(endU, startU), U32One) = U32Shl1(k)
    /\ U32Mod(startU, U32Shl1(k)) = U32Zero

\* C2: the decomposition ipv4RangeToCIDRs returns is minimal: no two
\* adjacent blocks of it can be merged into one larger aligned block, and a
\* start aligned to 2^k with count 2^k gives exactly one record, of prefix
\* length 32-k (1.0.0.0 with count 256 gives exactly 1.0.0.0/24).
C2_Minimal ==
    V4AtExit =>
        /\ \A i \in 1..(Len(v4out) - 1) :
              ~Mergeable(BlockOf(v4out[i]), BlockOf(v4out[i + 1]))
        /\ \A k \in 0..31 :
              AlignedPowerOfTwo(k) =>
                  /\ Len(v4out) = 1
                  /\ BlockOf(v4out[1]).len = 32 - k

(***************************************************************************)
(* Properties of the line filter (checked under SpecParse)                 *)
(***************************************************************************)

UpperLetters ==
    { "A", "B", "C", "D", "E", "F", "G", "H", "I", "J", "K", "L", "M",
      "N", "O", "P", "Q", "R", "S", "T", "U", "V", "W", "X", "Y", "Z" }

\* The number of "|"-delimited fields of a line, and its k-th field.
NumFields(line) == 1 + Cardinality({i \in DOMAIN line : line[i] = "|"})

Field(line, k) == Split(line, "|")[k]

\* The country field, uppercased, is two letters A-Z and is not "ZZ".
CountryOK(c) ==
    /\ Len(c) = 2
    /\ c[1] \in UpperLetters
    /\ c[2] \in UpperLetters
    /\ c # <<"Z", "Z">>

\* The conditions under which a line may give records.
Accepted(line) ==
    /\ line # <<>>
    /\ line[1] # "#"
    /\ NumFields(line) >= 7
    /\ Field(line, 7) \in {S_allocated, S_assigned}
    /\ CountryOK(ToUpper(Field(line, 2)))
    /\ Field(line, 3) \in {S_ipv4, S_ipv6}

RECURSIVE Flatten(_)
Flatten(seqs) ==
    IF seqs = <<>> THEN <<>> ELSE Head(seqs) \o Flatten(Tail(seqs))

\* The parser is between two lines, or has returned.
BetweenLines == ppc \in {"scan", "return"}

IsIPv6Start(start) == ParseIP(start).ok /\ ~IsTo4(ParseIP(start))

\* The value field is an integer from 0 to 128.
IsPrefixLen(value) ==
    Atoi(value).ok /\ Atoi(value).val >= 0 /\ Atoi(value).val <= 128

\* An accepted line of type "ipv6".
AcceptedV6(line) == Accepted(line) /\ Field(line, 3) = S_ipv6

\* C10: an accepted line of type "ipv6" gives exactly one record, with
\* prefix "<start>/<value>" (the value as the integer it parses to) and the
\* line's country, when start is an IPv6 address that is neither IPv4 nor
\* IPv4-mapped and value is an integer from 0 to 128; otherwise it gives no
\* record, and neither case is an error.
C10_IPv6PassThrough ==
    /\ \A i \in DOMAIN lineRecs :
          AcceptedV6(body[i].text) =>
              IF /\ IsIPv6Start(Field(body[i].text, 4))
                 /\ IsPrefixLen(Field(body[i].text, 5))
              THEN lineRecs[i] =
                     << [Prefix  |-> Field(body[i].text, 4) \o <<"/">>
                                     \o Itoa(Atoi(Field(body[i].text, 5)).val),
                         Country |-> ToUpper(Field(body[i].text, 2))] >>
              ELSE lineRecs[i] = <<>>
    /\ (ppc = "return" /\ \A i \in DOMAIN body : ~body[i].long)
          => perr = "nil"

\* C10's case: the line ripe|US|ipv6|2a00:1450::|32|20090223|allocated was
\* scanned and gave the one record 2a00:1450::/32, US.
C10_Witness ==
    /\ ppc = "return"
    /\ body = <<Short(LineV6)>>
    /\ pout = << [Prefix  |-> <<"2", "a", "0", "0", ":", "1", "4", "5", "0",
                                ":", ":", "/", "3", "2">>,
                  Country |-> <<"U", "S">>] >>

(***************************************************************************)
(* Properties of the merge step of build (checked under Spec)              *)
(***************************************************************************)

\* Two records of s have one prefix and different countries.
HasConflict(s) ==
    \E i, j \in DOMAIN s :
        /\ i < j
        /\ s[i].Prefix = s[j].Prefix
        /\ s[i].Country # s[j].Country

NothingWritten ==
    /\ artifact = NoFile
    /\ sidecar = NoFile
    /\ manifest = NoFile

\* The run panicked in the merge loop of build.
MergeFailed == pc = "fatal" /\ fatalAt = "range"

\* The merge loop of build has run to its end and build has returned.
PastMerge ==
    \/ pc \in {"sort", "mkdir", "csv", "sha", "mkdir2", "json", "done"}
    \/ pc = "fatal" /\ fatalAt \notin {"range", "fetch"}

\* The conflict the run panicked at is one of all: a record with the
\* contradicting country after a record of the same prefix with the country
\* first recorded.
ConflictIsReal ==
    /\ conflict.prev # conflict.country
    /\ \E i, j \in DOMAIN all :
          /\ i < j
          /\ all[i] = Record(conflict.prefix, conflict.prev)
          /\ all[j] = Record(conflict.prefix, conflict.country)

FirstIdx(p) ==
    CHOOSE i \in DOMAIN all :
        /\ all[i].Prefix = p
        /\ \A k \in 1..(i - 1) : all[k].Prefix # p

\* C4: when the merge completes without conflict, out has each distinct
\* prefix of all exactly once, with the country of its first occurrence,
\* has no prefix that all has not, and is in first-occurrence order: a
\* later record of a recorded prefix and the same country is dropped.
C4_MergeDedup ==
    PastMerge =>
        /\ \A i, j \in DOMAIN out : i < j => out[i].Prefix # out[j].Prefix
        /\ {out[i] : i \in DOMAIN out}
              = {all[FirstIdx(all[k].Prefix)] : k \in DOMAIN all}
        /\ \A i, j \in DOMAIN out :
              i < j => FirstIdx(out[i].Prefix) < FirstIdx(out[j].Prefix)

\* The merge has completed, dropped a record, and kept at least two.
C4_Witness ==
    /\ pc = "sort"
    /\ Len(out) < Len(all)
    /\ Len(out) >= 2

(***************************************************************************)
(* Properties of fetchWithRetry (checked under Spec)                       *)
(***************************************************************************)

\* The records the parser returns for the body source n serves.
Parsed(n) == ParseDelegatedExtended(snapshot[n]).recs

\* The records of the first k sources the range has yielded, in that order.
RECURSIVE AllOf(_)
AllOf(k) == IF k = 0 THEN <<>> ELSE AllOf(k - 1) \o Parsed(iter[k])

\* The run panicked at the end of the loop of fetchWithRetry.
FetchFailed == pc = "fatal" /\ fatalAt = "fetch"

S_5attempts == <<"5", " ", "a", "t", "t", "e", "m", "p", "t", "s">>

\* C5: fetchWithRetry makes at most 5 download attempts for a source.
\* When it returns, after fewer than 5 failures and a download the parser
\* accepts, the records are those of that body and the run is back in the
\* range over the sources; when 5 attempts have failed it makes no 6th and
\* panics with the name of the source and "5 attempts", before any merge
\* and any file.
C5_AtMostFiveAttempts ==
    /\ requests <= 5
    /\ (pc = "range" /\ iter # <<>>) =>
          /\ requests \in 1..5
          /\ name \in fetched
          /\ all = AllOf(Len(iter))
    /\ FetchFailed =>
          /\ requests = 5
          /\ name \notin fetched
          /\ all = AllOf(Len(iter) - 1)
          /\ Contains(panicMsg, S_failed \o name)
          /\ Contains(panicMsg, S_5attempts)
          /\ out = <<>>
          /\ recs = <<>>
          /\ NothingWritten

\* Two transport failures, then a download whose records fetchWithRetry
\* returns; the range goes on.
C5_Witness ==
    /\ pc = "range"
    /\ requests = 3
    /\ parseFails = 0
    /\ name \in fetched
    /\ Parsed(name) # <<>>
    /\ all = AllOf(Len(iter))
    /\ Yielded # Sources

C7_ManifestLast ==
    /\ manifest # NoFile =>
          /\ fetched = Sources
          /\ ~HasConflict(all)
          /\ conflict = NoConflict
          /\ artifact = File(Gzip(CSVLines(recs)))
          /\ sidecar = File(<<Sha256Hex(artifact.data), S_csvgz>>)
    /\ pc = "fatal" => manifest = NoFile

\* The records of the snapshot, whichever source serves them.
RecordSet == UNION {{Parsed(n)[i] : i \in DOMAIN Parsed(n)} : n \in Sources}

\* The one arrangement of the records of S strictly increasing by prefix.
Increasing(S) ==
    CHOOSE s \in [1..Cardinality(S) -> S] :
        \A i, j \in DOMAIN s : i < j => StrLess(s[i].Prefix, s[j].Prefix)

\* The bytes of the artifact for a conflict-free snapshot: a function of
\* the snapshot, not of iter.
CanonicalBytes == Gzip(CSVLines(Increasing(RecordSet)))

SortedSources ==
    <<S_afrinic \o S_delegated, S_apnic \o S_delegated, S_arin \o S_delegated,
      S_lacnic \o S_delegated, S_ripe \o S_delegated>>

\* C8: for a conflict-free snapshot, in whatever order the range yields the
\* sources, the lines of the artifact are the records of the snapshot in
\* strictly increasing order of prefix, so its bytes and digest are
\* functions of the snapshot alone; the sources of the manifest are the
\* sorted list of "<name>-delegated".
C8_Reproducible ==
    /\ (sidecar.state = "complete" \/ manifest.state = "complete") =>
          artifact.state = "complete"
    /\ artifact.state = "complete" =>
        LET bytes == CanonicalBytes
        IN  /\ \A i, j \in DOMAIN recs :
                  i < j => StrLess(recs[i].Prefix, recs[j].Prefix)
            /\ artifact.data = bytes
            /\ sidecar.state = "complete" =>
                  sidecar.data = <<Sha256Hex(bytes), S_csvgz>>
            /\ manifest.state = "complete" =>
                  /\ manifest.data.Sources = SortedSources
                  /\ manifest.data.Artifacts[1].Sha256 = Sha256Hex(bytes)

\* A finished run that began with ripe and whose sort changed the order
\* of the merged records.
C8_Witness ==
    /\ pc = "done"
    /\ iter[1] = S_ripe
    /\ Len(recs) >= 3
    /\ recs # out
    /\ manifest.state = "complete"

(***************************************************************************)
(* Termination of the IPv4 decomposition (checked under SpecParse)         *)
(***************************************************************************)

\* The addresses of [cur, endU] still to be emitted, less one.
V4Remaining(c) == U32Sub(endU, c)

\* C11: every iteration of the loop of ipv4RangeToCIDRs emits one block and
\* strictly decreases end - cur: cur moves forward, and either passes endU
\* (the loop exits) or leaves fewer addresses of [cur, endU] than before;
\* so the loop exits after finitely many iterations, also when the last
\* address of the range is 255.255.255.255.
C11_LoopTerminates ==
    [][(ppc = "v4loop" /\ cur' # cur) =>
          /\ Len(v4out') = Len(v4out) + 1
          /\ U32Lt(cur, cur')
          /\ \/ ~U32Le(cur', endU)
             \/ U32Lt(V4Remaining(cur'), V4Remaining(cur))]_vars

=============================================================================
